---- MODULE Spec2Model ----
(***************************************************************************)
(* Model of db.populate.ts: the idempotent, schema-aware seeding of the    *)
(* demo dataset (Tenants, TenantPartners, Locations, ChargingStations,     *)
(* Evses, Connectors).  Every database round trip of main() is one action; *)
(* the database is a map from table name to the sequence of its rows.      *)
(***************************************************************************)
EXTENDS Integers, Sequences, FiniteSets, TLC

VARIABLES
  schema,      \* live schema: table -> set of column names ({} = no such table)
  unique,      \* TRUE when every table has a unique constraint on its logical key
  concurrent,  \* TRUE when the seeder instances overlap, FALSE when they run one after another
  stationId,   \* POPULATE_STATION_ID or its default (line 163)
  seed,        \* which rows the database held before the first run
  fault,       \* the failure of the environment (at most one per behaviour)
  db,          \* table -> sequence of rows (row: column -> value)
  pc,          \* per instance: position in main()
  ent,         \* per instance: index in Order of the entity being seeded
  desc,        \* per instance: the description of the current entity's table
  locationId,  \* per instance: local of main (line 230)
  evseDbId,    \* per instance: local of main (line 328)
  created,     \* per instance, per table: the created flag ensureRow returned
  err,         \* per instance: the error that rejected main()
  exitCode,    \* per instance: process.exitCode
  conn,        \* per instance: how often the connection was opened and closed
  ops,         \* per instance: the database operations issued so far, in order
  calls        \* the setPostgisPointIfNull calls made directly (geometry harness)

vars == <<schema, unique, concurrent, stationId, seed, fault, db, pc, ent, desc,
          locationId, evseDbId, created, err, exitCode, conn, ops, calls>>

----------------------------------------------------------------------------
(* Bounds of the model *)

NumRuns == 2
MaxDeviating == 1
MaxGeoRows == 2
MaxGeoCalls == 2
MaxPickCalls == 1

Inst == 1..NumRuns

----------------------------------------------------------------------------
(* Values.  A column value is a tuple, so that NULL compares with any value *)
(* and values of different columns never meet.                              *)

NULL == <<>>
Str(s) == <<s>>
Num(n) == <<n>>
Bool(b) == <<b>>

DEFAULT_TENANT_ID == 1
DefaultStationId == "00000000-0000-0000-0000-000000000001"
EnvStationId == "CS-OTHER"
StationIds == {DefaultStationId, EnvStationId}

\* demo coordinates, in units of 10^-4 degree
demoLng == -1223949
demoLat == 377936
SRID == 4326

\* ST_SetSRID(ST_MakePoint(lng, lat), 4326)
MakePoint(lng, lat) == <<lng, lat, SRID>>

\* now(): the time of the run, one instant per instance
now(i) == Num(i)

Tables == {"Tenants", "TenantPartners", "Locations", "ChargingStations", "Evses", "Connectors"}

\* a main() that seeds the station before its location
OrderStationFirst ==
  <<"Tenants", "TenantPartners", "ChargingStations", "Locations", "Evses", "Connectors">>

\* the order in which main() takes the entities
Order == <<"Tenants", "TenantPartners", "Locations", "ChargingStations", "Evses", "Connectors">>

Get(row, c) == IF c \in DOMAIN row THEN row[c] ELSE NULL

----------------------------------------------------------------------------
(* Schema introspection and projection *)

NullDesc == [ok |-> FALSE, cols |-> {}]

\* the failure the environment holds in store: a metadata query on a table rejected for
\* a reason other than the table's absence ("describe"), or an insert into a table that
\* reports no row, the row being stored ("noRow") or not ("noRowSkipped"); hit is the
\* instance the failure has struck, 0 while it is still to come
NoFault == [kind |-> "none", table |-> "", hit |-> 0]
Fault(k, t) == [kind |-> k, table |-> t, hit |-> 0]
Struck(f, i) == [f EXCEPT !.hit = i]

\* the description of table t as the catalog holds it
TableDescription(t) == [ok |-> schema[t] # {}, cols |-> schema[t]]

\* an introspection that never sees the metadata query fail
describeTableUnfailing(t) == TableDescription(t)

\* getQueryInterface().describeTable(table): rejects when the table has no columns, and
\* when the metadata query itself fails
describeTable(t) ==
  IF schema[t] = {} \/ fault = Fault("describe", t)
    THEN [ok |-> FALSE, cols |-> {}]
    ELSE TableDescription(t)

describeTableSafe(t) == LET r == describeTable(t) IN IF r.ok THEN r ELSE NullDesc

\* desc[k] is truthy
Has(d, k) == k \in d.cols

\* a projection that forgets to look at the description
pickAllColumns(row, d) == row

pickExistingColumns(row, d) == [k \in {c \in DOMAIN row : Has(d, c)} |-> row[k]]

\* line 170: only the Tenants table is required
IsMandatoryNever(t) == FALSE
IsMandatory(t) == t = "Tenants"

----------------------------------------------------------------------------
(* The candidate records of main(), one per entity *)

tenantCandidate(i) ==
  [id |-> Num(DEFAULT_TENANT_ID), name |-> Str("Default Tenant"),
   createdAt |-> now(i), updatedAt |-> now(i)]

tpCandidate(i) ==
  [partyId |-> Str("TST"), countryCode |-> Str("US"), tenantId |-> Num(DEFAULT_TENANT_ID),
   partnerProfileOCPI |-> NULL, createdAt |-> now(i), updatedAt |-> now(i)]

locCandidate(i) ==
  [name |-> Str("Demo Location"), address |-> Str("1 Market St"),
   city |-> Str("San Francisco"), postalCode |-> Str("94105"), state |-> Str("CA"),
   country |-> Str("US"), publishUpstream |-> Bool(FALSE), timeZone |-> Str("UTC"),
   tenantId |-> Num(DEFAULT_TENANT_ID), createdAt |-> now(i), updatedAt |-> now(i)]

stationCandidateFixedLocation(i) ==
  [id |-> Str(stationId), isOnline |-> Bool(FALSE), protocol |-> Str("2.0.1"),
   chargePointVendor |-> Str("CitrineOS"), chargePointModel |-> Str("DemoStation"),
   locationId |-> Num(1), tenantId |-> Num(DEFAULT_TENANT_ID),
   createdAt |-> now(i), updatedAt |-> now(i)]

stationCandidate(i) ==
  [id |-> Str(stationId), isOnline |-> Bool(FALSE), protocol |-> Str("2.0.1"),
   chargePointVendor |-> Str("CitrineOS"), chargePointModel |-> Str("DemoStation"),
   locationId |-> locationId[i], tenantId |-> Num(DEFAULT_TENANT_ID),
   createdAt |-> now(i), updatedAt |-> now(i)]

evseCandidateDrift(i) ==
  [stationId |-> Str(stationId), evseTypeId |-> Num(2), evseId |-> Str("US*TST*E*00000001*1"),
   removed |-> Bool(FALSE), tenantId |-> Num(DEFAULT_TENANT_ID),
   createdAt |-> now(i), updatedAt |-> now(i)]

evseCandidate(i) ==
  [stationId |-> Str(stationId), evseTypeId |-> Num(1), evseId |-> Str("US*TST*E*00000001*1"),
   removed |-> Bool(FALSE), tenantId |-> Num(DEFAULT_TENANT_ID),
   createdAt |-> now(i), updatedAt |-> now(i)]

connectorCandidateFixedEvse(i) ==
  [stationId |-> Str(stationId), connectorId |-> Num(1), status |-> Str("Available"),
   errorCode |-> Str("NoError"), timestamp |-> now(i), info |-> Str("Demo connector"),
   evseId |-> Num(1), evseTypeConnectorId |-> Num(1),
   tenantId |-> Num(DEFAULT_TENANT_ID), createdAt |-> now(i), updatedAt |-> now(i)]

connectorCandidate(i) ==
  [stationId |-> Str(stationId), connectorId |-> Num(1), status |-> Str("Available"),
   errorCode |-> Str("NoError"), timestamp |-> now(i), info |-> Str("Demo connector"),
   evseId |-> evseDbId[i], evseTypeConnectorId |-> Num(1),
   tenantId |-> Num(DEFAULT_TENANT_ID), createdAt |-> now(i), updatedAt |-> now(i)]

Candidate(t, i) ==
  CASE t = "Tenants" -> tenantCandidate(i)
    [] t = "TenantPartners" -> tpCandidate(i)
    [] t = "Locations" -> locCandidate(i)
    [] t = "ChargingStations" -> stationCandidate(i)
    [] t = "Evses" -> evseCandidate(i)
    [] t = "Connectors" -> connectorCandidate(i)

----------------------------------------------------------------------------
(* The uniqueness predicates: a conjunction of clauses "col" = :param, or   *)
(* the literal 1=1                                                          *)

Clause(c, p) == [col |-> c, param |-> p]
Tautology == [col |-> "1=1", param |-> "1=1"]
OnlyIf(cond, clause) == IF cond THEN <<clause>> ELSE <<>>

tenantWhere(d) == <<Clause("id", "id")>>
tenantParams(d) == [id |-> Num(DEFAULT_TENANT_ID)]

tpWhere(d) ==
  <<Clause("partyId", "partyId"), Clause("countryCode", "countryCode"),
    IF Has(d, "tenantId") THEN Clause("tenantId", "tenantId") ELSE Tautology>>
tpParams(d) ==
  [partyId |-> Str("TST"), countryCode |-> Str("US"), tenantId |-> Num(DEFAULT_TENANT_ID)]

locWhereUnguarded(d) == <<Clause("name", "name"), Clause("tenantId", "tenantId")>>

locWhere(d) ==
  OnlyIf(Has(d, "name"), Clause("name", "name"))
    \o OnlyIf(Has(d, "tenantId"), Clause("tenantId", "tenantId"))
locParams(d) ==
  IF Has(d, "tenantId")
    THEN [name |-> Str("Demo Location"), tenantId |-> Num(DEFAULT_TENANT_ID)]
    ELSE [name |-> Str("Demo Location")]

stationWhere(d) == <<Clause("id", "id")>>
stationParams(d) == [id |-> Str(stationId)]

\* a predicate that branches on the candidate's evseTypeId value instead of the column
evseWhereByValue(d) ==
  OnlyIf(Has(d, "stationId"), Clause("stationId", "stationId"))
    \o (IF evseCandidate(1)["evseTypeId"] # NULL
          THEN <<Clause("evseTypeId", "evseTypeId")>>
          ELSE OnlyIf(Has(d, "evseId"), Clause("evseId", "evseId")))

evseWhere(d) ==
  OnlyIf(Has(d, "stationId"), Clause("stationId", "stationId"))
    \o (IF Has(d, "evseTypeId")
          THEN <<Clause("evseTypeId", "evseTypeId")>>
          ELSE OnlyIf(Has(d, "evseId"), Clause("evseId", "evseId")))
evseParams(d) ==
  IF Has(d, "evseTypeId")
    THEN [stationId |-> Str(stationId), evseTypeId |-> Num(1)]
    ELSE IF Has(d, "evseId")
      THEN [stationId |-> Str(stationId), evseId |-> Str("US*TST*E*00000001*1")]
      ELSE [stationId |-> Str(stationId)]

connectorWhere(d) == <<Clause("stationId", "stationId"), Clause("connectorId", "connectorId")>>
connectorParams(d) == [stationId |-> Str(stationId), connectorId |-> Num(1)]

uniqueWhereSql(t, d) ==
  CASE t = "Tenants" -> tenantWhere(d)
    [] t = "TenantPartners" -> tpWhere(d)
    [] t = "Locations" -> locWhere(d)
    [] t = "ChargingStations" -> stationWhere(d)
    [] t = "Evses" -> evseWhere(d)
    [] t = "Connectors" -> connectorWhere(d)

uniqueParams(t, d) ==
  CASE t = "Tenants" -> tenantParams(d)
    [] t = "TenantPartners" -> tpParams(d)
    [] t = "Locations" -> locParams(d)
    [] t = "ChargingStations" -> stationParams(d)
    [] t = "Evses" -> evseParams(d)
    [] t = "Connectors" -> connectorParams(d)

evseReturning(d) ==
  IF Has(d, "id") THEN {"id"} ELSE IF Has(d, "databaseId") THEN {"databaseId"} ELSE {"id"}

returningCols(t, d) == IF t = "Evses" THEN evseReturning(d) ELSE {"id"}

\* the columns a predicate mentions (the literal 1=1 counted as "1=1")
WhereRefs(w) == {w[j].col : j \in 1..Len(w)}
WhereCols(w) == WhereRefs(w) \ {"1=1"}

----------------------------------------------------------------------------
(* The database: what the SQL statements of the seeder do *)

NoError == [kind |-> "none", table |-> ""]
Error(k, t) == [kind |-> k, table |-> t]

\* a statement on table t naming the columns cols is accepted by the database
SqlColumnsOk(t, cols) == schema[t] # {} /\ cols \subseteq schema[t]

Project(row, cols) == [c \in cols |-> row[c]]

\* "col" = :param holds of a row (SQL equality: never true of NULL)
Holds(row, clause, params) ==
  \/ clause = Tautology
  \/ /\ row[clause.col] # NULL
     /\ params[clause.param] # NULL
     /\ row[clause.col] = params[clause.param]

\* the rows of table t selected by WHERE where, as indices
rowsMatching(dbv, t, where, params) ==
  {k \in 1..Len(dbv[t]) : \A j \in 1..Len(where) : Holds(dbv[t][k], where[j], params)}

\* the same read with the WHERE clause lost
selectOneNoWhere(dbv, t, returning, where, params) ==
  IF ~SqlColumnsOk(t, returning)
    THEN [err |-> Error("SqlError", t), found |-> {}]
    ELSE [err |-> NoError, found |-> 1..Len(dbv[t])]

\* selectOne: SELECT returning FROM t WHERE where LIMIT 1; rows[0] ?? null.
\* The result is the set of rows the database may answer with ({} = null).
selectOne(dbv, t, returning, where, params) ==
  IF ~SqlColumnsOk(t, returning \cup WhereCols(where))
    THEN [err |-> Error("SqlError", t), found |-> {}]
    ELSE [err |-> NoError, found |-> rowsMatching(dbv, t, where, params)]

\* columns the database fills from a sequence when the insert leaves them out
SerialCols == {"id", "databaseId"}

\* the logical key of a table: the columns of its uniqueness predicate
KeyCols(t) == WhereCols(uniqueWhereSql(t, TableDescription(t)))

UniqueViolation(dbv, t, newRow) ==
  /\ unique
  /\ \E k \in 1..Len(dbv[t]) :
       \A c \in KeyCols(t) : newRow[c] # NULL /\ dbv[t][k][c] = newRow[c]

\* insertReturning: INSERT INTO t (cols) VALUES (...) RETURNING returning
insertReturning(dbv, t, row, returning) ==
  LET cols == DOMAIN row
      newRow == [c \in schema[t] |->
                   IF c \in cols THEN row[c]
                   ELSE IF c \in SerialCols THEN Num(Len(dbv[t]) + 1) ELSE NULL]
      insertedRows ==
        IF fault \in {Fault("noRow", t), Fault("noRowSkipped", t)}
          THEN <<>>
          ELSE <<Project(newRow, returning)>>
      stored == IF fault = Fault("noRowSkipped", t) THEN dbv ELSE [dbv EXCEPT ![t] = Append(@, newRow)]
  IN IF cols = {}
       THEN [err |-> Error("NoColumns", t), issued |-> FALSE, db |-> dbv, row |-> NULL]
     ELSE IF ~SqlColumnsOk(t, cols \cup returning) \/ UniqueViolation(dbv, t, newRow)
       THEN [err |-> Error("SqlError", t), issued |-> TRUE, db |-> dbv, row |-> NULL]
     ELSE IF Len(insertedRows) = 0
       THEN [err |-> Error("NoRowReturned", t), issued |-> TRUE, db |-> stored, row |-> NULL]
     ELSE [err |-> NoError, issued |-> TRUE, db |-> stored, row |-> insertedRows[1]]

\* the same update without the IS NULL condition
setPostgisPointAlways(dbv, t, idColumn, idValue, pointColumn, lng, lat) ==
  LET hit == {k \in 1..Len(dbv[t]) : idValue # NULL /\ dbv[t][k][idColumn] = idValue}
  IN IF ~SqlColumnsOk(t, {idColumn, pointColumn})
       THEN [err |-> Error("SqlError", t), db |-> dbv, affected |-> 0, ret |-> FALSE]
       ELSE [err |-> NoError,
             db |-> [dbv EXCEPT ![t] =
                       [k \in 1..Len(dbv[t]) |->
                          IF k \in hit
                            THEN [dbv[t][k] EXCEPT ![pointColumn] = MakePoint(lng, lat)]
                            ELSE dbv[t][k]]],
             affected |-> Cardinality(hit),
             ret |-> Cardinality(hit) > 0]

\* setPostgisPointIfNull: UPDATE t SET point = ST_SetSRID(ST_MakePoint(lng, lat), 4326)
\* WHERE id = :idValue AND point IS NULL; returns affected > 0
setPostgisPointIfNull(dbv, t, idColumn, idValue, pointColumn, lng, lat) ==
  LET hit == {k \in 1..Len(dbv[t]) :
                /\ idValue # NULL
                /\ dbv[t][k][idColumn] = idValue
                /\ dbv[t][k][pointColumn] = NULL}
  IN IF ~SqlColumnsOk(t, {idColumn, pointColumn})
       THEN [err |-> Error("SqlError", t), db |-> dbv, affected |-> 0, ret |-> FALSE]
       ELSE [err |-> NoError,
             db |-> [dbv EXCEPT ![t] =
                       [k \in 1..Len(dbv[t]) |->
                          IF k \in hit
                            THEN [dbv[t][k] EXCEPT ![pointColumn] = MakePoint(lng, lat)]
                            ELSE dbv[t][k]]],
             affected |-> Cardinality(hit),
             ret |-> Cardinality(hit) > 0]

----------------------------------------------------------------------------
(* The schemas and the initial databases the runs are checked against *)

\* every column the seeder names for a table
Full(t) ==
  CASE t = "Tenants" -> {"id", "name", "createdAt", "updatedAt"}
    [] t = "TenantPartners" ->
         {"id", "partyId", "countryCode", "tenantId", "partnerProfileOCPI",
          "createdAt", "updatedAt"}
    [] t = "Locations" ->
         {"id", "name", "address", "city", "postalCode", "state", "country",
          "publishUpstream", "timeZone", "tenantId", "coordinates", "createdAt", "updatedAt"}
    [] t = "ChargingStations" ->
         {"id", "isOnline", "protocol", "chargePointVendor", "chargePointModel",
          "locationId", "tenantId", "coordinates", "createdAt", "updatedAt"}
    [] t = "Evses" ->
         {"id", "stationId", "evseTypeId", "evseId", "removed", "tenantId",
          "createdAt", "updatedAt"}
    [] t = "Connectors" ->
         {"id", "stationId", "connectorId", "status", "errorCode", "timestamp", "info",
          "evseId", "evseTypeConnectorId", "tenantId", "createdAt", "updatedAt"}

FullSchema == [t \in Tables |-> Full(t)]

\* the ways a table may differ from the full schema ({} = the table is missing)
Variants(t) ==
  CASE t = "Tenants" -> {{}, Full(t) \ {"id"}, {"id"}}
    [] t = "TenantPartners" -> {{}, Full(t) \ {"tenantId"}, Full(t) \ {"partyId"}}
    [] t = "Locations" ->
         {{}, Full(t) \ {"tenantId"}, Full(t) \ {"name"}, Full(t) \ {"name", "tenantId"},
          Full(t) \ {"coordinates"}, Full(t) \ {"id"}}
    [] t = "ChargingStations" ->
         {{}, Full(t) \ {"locationId"}, Full(t) \ {"coordinates"}, Full(t) \ {"id"}}
    [] t = "Evses" ->
         {{}, Full(t) \ {"evseTypeId"}, Full(t) \ {"stationId"},
          Full(t) \ {"stationId", "evseTypeId", "evseId"},
          (Full(t) \ {"id"}) \cup {"databaseId"}, Full(t) \ {"id"}}
    [] t = "Connectors" -> {{}, Full(t) \ {"evseId"}, Full(t) \ {"stationId"}}

\* the schema the overlapping instances are run against
RaceTables == {"Tenants", "Locations", "ChargingStations"}
RaceSchema == [t \in Tables |-> IF t \in RaceTables THEN Full(t) ELSE {}]

AllVariants == UNION {Variants(t) : t \in Tables}

\* the full schema with at most MaxDeviating tables replaced by a variant
Schemas ==
  {[t \in Tables |-> IF t \in DOMAIN f THEN f[t] ELSE Full(t)] :
     f \in UNION {{g \in [D -> AllVariants] : \A t \in D : g[t] \in Variants(t)} :
                    D \in {D \in SUBSET Tables : Cardinality(D) <= MaxDeviating}}}

OperatorPoint == MakePoint(10, 20)

\* rows of another tenant's station, present before the first run
OtherRecord(t) ==
  CASE t = "Tenants" -> [id |-> Num(2), name |-> Str("Other Tenant")]
    [] t = "TenantPartners" ->
         [id |-> Num(1), partyId |-> Str("OTH"), countryCode |-> Str("US"), tenantId |-> Num(2)]
    [] t = "Locations" ->
         [id |-> Num(1), name |-> Str("Other Location"), tenantId |-> Num(2),
          coordinates |-> OperatorPoint]
    [] t = "ChargingStations" ->
         [id |-> Str(EnvStationId), locationId |-> Num(1), tenantId |-> Num(2)]
    [] t = "Evses" ->
         [id |-> Num(1), databaseId |-> Num(1), stationId |-> Str(EnvStationId),
          evseTypeId |-> Num(1), evseId |-> Str("US*OTH*E*1"), tenantId |-> Num(2)]
    [] t = "Connectors" ->
         [id |-> Num(1), stationId |-> Str(EnvStationId), connectorId |-> Num(1),
          evseId |-> Num(1), tenantId |-> Num(2)]

\* the demo rows as an earlier seeding left them and an operator has edited them since:
\* the tenant renamed, the location moved, the station without coordinates
DemoRecord(t) ==
  CASE t = "Tenants" ->
         [id |-> Num(DEFAULT_TENANT_ID), name |-> Str("Renamed Tenant"),
          createdAt |-> Num(0), updatedAt |-> Num(0)]
    [] t = "TenantPartners" ->
         [id |-> Num(2), partyId |-> Str("TST"), countryCode |-> Str("US"),
          tenantId |-> Num(DEFAULT_TENANT_ID), createdAt |-> Num(0), updatedAt |-> Num(0)]
    [] t = "Locations" ->
         [id |-> Num(2), name |-> Str("Demo Location"), address |-> Str("2 Main St"),
          tenantId |-> Num(DEFAULT_TENANT_ID), coordinates |-> OperatorPoint,
          createdAt |-> Num(0), updatedAt |-> Num(0)]
    [] t = "ChargingStations" ->
         [id |-> Str(stationId), isOnline |-> Bool(TRUE), locationId |-> Num(2),
          tenantId |-> Num(DEFAULT_TENANT_ID), createdAt |-> Num(0), updatedAt |-> Num(0)]
    [] t = "Evses" ->
         [id |-> Num(2), databaseId |-> Num(2), stationId |-> Str(stationId),
          evseTypeId |-> Num(1), evseId |-> Str("US*TST*E*00000001*1"),
          tenantId |-> Num(DEFAULT_TENANT_ID), createdAt |-> Num(0), updatedAt |-> Num(0)]
    [] t = "Connectors" ->
         [id |-> Num(2), stationId |-> Str(stationId), connectorId |-> Num(1),
          status |-> Str("Charging"), evseId |-> Num(2), tenantId |-> Num(DEFAULT_TENANT_ID),
          createdAt |-> Num(0), updatedAt |-> Num(0)]

\* the demo rows as a seeding left them while the Locations and Evses tables were absent:
\* the station without a location, the connector without an EVSE
UnlinkedRecord(t) ==
  CASE t = "ChargingStations" -> [DemoRecord(t) EXCEPT !["locationId"] = NULL]
    [] t = "Connectors" -> [DemoRecord(t) EXCEPT !["evseId"] = NULL]
    [] OTHER -> DemoRecord(t)

SeedRow(cols, rec) == [c \in cols |-> Get(rec, c)]

\* "empty": no rows; "other": another tenant's rows; "demo": those and the demo rows;
\* "unlinked": as "demo", but seeded before the Locations and Evses tables were created
Seeds == {"empty", "other", "demo", "unlinked"}

SeedDb(sd, sch) ==
  [t \in Tables |->
     IF sd = "empty" \/ sch[t] = {} THEN <<>>
     ELSE IF sd = "other" \/ (sd = "unlinked" /\ t \in {"Locations", "Evses"})
       THEN <<SeedRow(sch[t], OtherRecord(t))>>
     ELSE IF sd = "demo"
       THEN <<SeedRow(sch[t], OtherRecord(t)), SeedRow(sch[t], DemoRecord(t))>>
     ELSE <<SeedRow(sch[t], OtherRecord(t)), SeedRow(sch[t], UnlinkedRecord(t))>>]

----------------------------------------------------------------------------
(* main(): one action per database round trip *)

Op(k, t, c, n) == [kind |-> k, table |-> t, cols |-> c, n |-> n]

\* process.exitCode as long as nothing sets it
exitCodeDefault == 0

Terminated(i) == pc[i] \in {"done", "failed", "killed"}

InitLocals ==
  /\ pc = [i \in Inst |-> "idle"]
  /\ ent = [i \in Inst |-> 1]
  /\ desc = [i \in Inst |-> NullDesc]
  /\ locationId = [i \in Inst |-> NULL]
  /\ evseDbId = [i \in Inst |-> NULL]
  /\ created = [i \in Inst |-> [t \in Tables |-> "none"]]
  /\ err = [i \in Inst |-> NoError]
  /\ exitCode = [i \in Inst |-> exitCodeDefault]
  /\ conn = [i \in Inst |-> [opened |-> 0, closed |-> 0]]
  /\ ops = [i \in Inst |-> <<>>]

Init ==
  /\ concurrent \in BOOLEAN
  /\ schema \in (IF concurrent THEN {RaceSchema} ELSE Schemas)
  /\ unique \in BOOLEAN
  /\ stationId \in (IF concurrent THEN {DefaultStationId} ELSE StationIds)
  /\ seed \in (IF concurrent THEN {"empty"} ELSE Seeds)
  /\ seed \in {"demo", "unlinked"} => stationId = DefaultStationId
  /\ fault = NoFault
  /\ db = SeedDb(seed, schema)
  /\ InitLocals
  /\ calls = <<>>

\* the entity after e, or the end of main()
NextPc(e) == IF e = Len(Order) THEN "close" ELSE "describe"
NextEnt(e) == IF e = Len(Order) THEN e ELSE e + 1

HasBackfill(t, d) == t \in {"Locations", "ChargingStations"} /\ Has(d, "coordinates")

\* lines 157-161: the connection is created and authenticated
Authenticate(i) ==
  /\ pc[i] = "idle"
  /\ (concurrent /\ i <= 2) \/ \A j \in Inst : j < i => Terminated(j)
  /\ conn' = [conn EXCEPT ![i].opened = @ + 1]
  /\ ops' = [ops EXCEPT ![i] = Append(@, Op("authenticate", "", {}, 0))]
  /\ pc' = [pc EXCEPT ![i] = "describe"]
  /\ UNCHANGED <<schema, unique, concurrent, stationId, seed, fault, db, ent, desc, locationId,
                 evseDbId, created, err, exitCode, calls>>

\* an entity is skipped without a table description (lines 197, 231, 287, 329, 371) and
\* with an empty predicate (lines 256, 354)
SkipsOnlyAbsent(t, d) == ~d.ok
Skips(t, d) == ~d.ok \/ Len(uniqueWhereSql(t, d)) = 0

\* describeTableSafe of the current entity's table, and the branch on its result
DescribeTable(i) ==
  /\ pc[i] = "describe"
  /\ LET t == Order[ent[i]]
         d == describeTableSafe(t)
         skip == Skips(t, d)
     IN /\ desc' = [desc EXCEPT ![i] = d]
        /\ fault' = IF fault = Fault("describe", t) THEN Struck(fault, i) ELSE fault
        /\ ops' = [ops EXCEPT ![i] = Append(@, Op("describe", t, {}, 0))]
        /\ IF ~d.ok /\ IsMandatory(t)
             THEN /\ pc' = [pc EXCEPT ![i] = "thrown"]
                  /\ err' = [err EXCEPT ![i] = Error("TableNotFound", t)]
                  /\ ent' = ent
             ELSE /\ pc' = [pc EXCEPT ![i] = IF skip THEN NextPc(ent[i]) ELSE "select"]
                  /\ ent' = [ent EXCEPT ![i] = IF skip THEN NextEnt(@) ELSE @]
                  /\ err' = err
  /\ UNCHANGED <<schema, unique, concurrent, stationId, seed, db, locationId, evseDbId,
                 created, exitCode, conn, calls>>

\* a main() that loses the identifier of the Location it ensured
KeepLocationIdLost(i, t, row) == locationId[i]

\* what main() keeps of the row ensureRow returned
KeepLocationId(i, t, row) == IF t = "Locations" THEN row["id"] ELSE locationId[i]
KeepEvseDbId(i, t, row) ==
  IF t = "Evses"
    THEN IF Get(row, "id") # NULL THEN Get(row, "id") ELSE Get(row, "databaseId")
    ELSE evseDbId[i]

\* ensureRow, line 150: an existing row is returned, the insert follows only without one
NeedsInsertAlways(found) == TRUE
NeedsInsert(found) == found = {}

\* a find-or-create that overwrites the row it found with the candidate's columns
ensureRowUpsert(dbv, t, k, row) ==
  [dbv EXCEPT ![t][k] = [c \in DOMAIN @ |-> IF c \in DOMAIN row THEN row[c] ELSE @[c]]]

\* ensureRow, line 150: the row found is returned as it is, nothing is written
ensureRowExisting(dbv, t, k, row) == dbv

\* ensureRow, first half: the read restricted by the uniqueness predicate
SelectOne(i) ==
  /\ pc[i] = "select"
  /\ LET t == Order[ent[i]]
         d == desc[i]
         where == uniqueWhereSql(t, d)
         returning == returningCols(t, d)
         res == selectOne(db, t, returning, where, uniqueParams(t, d))
     IN IF res.err # NoError
          THEN /\ pc' = [pc EXCEPT ![i] = "thrown"]
               /\ err' = [err EXCEPT ![i] = res.err]
               /\ ops' = [ops EXCEPT ![i] = Append(@, Op("select", t, WhereRefs(where), 0))]
               /\ UNCHANGED <<db, ent, locationId, evseDbId, created>>
        ELSE IF NeedsInsert(res.found)
          THEN /\ pc' = [pc EXCEPT ![i] = "insert"]
               /\ ops' = [ops EXCEPT ![i] = Append(@, Op("select", t, WhereRefs(where), 0))]
               /\ UNCHANGED <<db, ent, locationId, evseDbId, created, err>>
        ELSE \E k \in res.found :
               LET existing == Project(db[t][k], returning)
               IN /\ created' = [created EXCEPT ![i][t] = "existing"]
                  /\ db' = ensureRowExisting(db, t, k, pickExistingColumns(Candidate(t, i), d))
                  /\ locationId' = [locationId EXCEPT ![i] = KeepLocationId(i, t, existing)]
                  /\ evseDbId' = [evseDbId EXCEPT ![i] = KeepEvseDbId(i, t, existing)]
                  /\ ops' = [ops EXCEPT ![i] = Append(@, Op("select", t, WhereRefs(where), k))]
                  /\ pc' = [pc EXCEPT ![i] =
                              IF HasBackfill(t, d) THEN "backfill" ELSE NextPc(ent[i])]
                  /\ ent' = [ent EXCEPT ![i] = IF HasBackfill(t, d) THEN @ ELSE NextEnt(@)]
                  /\ err' = err
  /\ UNCHANGED <<schema, unique, concurrent, stationId, seed, fault, desc, exitCode, conn, calls>>

\* ensureRow, second half: the insert of the projected record
InsertReturning(i) ==
  /\ pc[i] = "insert"
  /\ LET t == Order[ent[i]]
         d == desc[i]
         row == pickExistingColumns(Candidate(t, i), d)
         res == insertReturning(db, t, row, returningCols(t, d))
         op == Op("insert", t, DOMAIN row, IF res.err = NoError THEN Len(res.db[t]) ELSE 0)
     IN /\ db' = res.db
        /\ fault' = IF res.err.kind = "NoRowReturned" THEN Struck(fault, i) ELSE fault
        /\ ops' = [ops EXCEPT ![i] = IF res.issued THEN Append(@, op) ELSE @]
        /\ IF res.err # NoError
             THEN /\ pc' = [pc EXCEPT ![i] = "thrown"]
                  /\ err' = [err EXCEPT ![i] = res.err]
                  /\ UNCHANGED <<ent, locationId, evseDbId, created>>
             ELSE /\ created' = [created EXCEPT ![i][t] = "created"]
                  /\ locationId' = [locationId EXCEPT ![i] = KeepLocationId(i, t, res.row)]
                  /\ evseDbId' = [evseDbId EXCEPT ![i] = KeepEvseDbId(i, t, res.row)]
                  /\ pc' = [pc EXCEPT ![i] =
                              IF HasBackfill(t, d) THEN "backfill" ELSE NextPc(ent[i])]
                  /\ ent' = [ent EXCEPT ![i] = IF HasBackfill(t, d) THEN @ ELSE NextEnt(@)]
                  /\ err' = err
  /\ UNCHANGED <<schema, unique, concurrent, stationId, seed, desc, exitCode, conn, calls>>

\* a backfill that only fills the rows the run itself created
BackfillIdIfCreated(i, t) ==
  IF created[i][t] # "created" THEN NULL
  ELSE IF t = "Locations" THEN locationId[i] ELSE Str(stationId)

\* the identifier the geometry backfill is keyed on
BackfillId(i, t) == IF t = "Locations" THEN locationId[i] ELSE Str(stationId)

\* lines 270-281 and 312-323: the geometry backfill of the current entity
Backfill(i) ==
  /\ pc[i] = "backfill"
  /\ LET t == Order[ent[i]]
         res == setPostgisPointIfNull(db, t, "id", BackfillId(i, t), "coordinates",
                                      demoLng, demoLat)
     IN /\ db' = res.db
        /\ ops' = [ops EXCEPT ![i] =
                     Append(@, Op("update", t, {"id", "coordinates"}, res.affected))]
        /\ IF res.err # NoError
             THEN /\ pc' = [pc EXCEPT ![i] = "thrown"]
                  /\ err' = [err EXCEPT ![i] = res.err]
                  /\ ent' = ent
             ELSE /\ pc' = [pc EXCEPT ![i] = NextPc(ent[i])]
                  /\ ent' = [ent EXCEPT ![i] = NextEnt(@)]
                  /\ err' = err
  /\ UNCHANGED <<schema, unique, concurrent, stationId, seed, fault, desc, locationId, evseDbId,
                 created, exitCode, conn, calls>>

\* sequelize.close()
sequelizeCloseForgotten(c) == c
sequelizeClose(c) == [c EXCEPT !.closed = @ + 1]

\* lines 399-409: the summary is printed and the connection closed
Close(i) ==
  /\ pc[i] = "close"
  /\ conn' = [conn EXCEPT ![i] = sequelizeClose(@)]
  /\ ops' = [ops EXCEPT ![i] = Append(@, Op("close", "", {}, 0))]
  /\ pc' = [pc EXCEPT ![i] = "done"]
  /\ UNCHANGED <<schema, unique, concurrent, stationId, seed, fault, db, ent, desc, locationId,
                 evseDbId, created, err, exitCode, calls>>

\* a catch handler that logs the error and leaves the exit code as it was
exitCodeUnset == exitCodeDefault

\* line 415: process.exitCode = 1
exitCodeOnFailure == 1

\* lines 412-416: main().catch
Catch(i) ==
  /\ pc[i] = "thrown"
  /\ exitCode' = [exitCode EXCEPT ![i] = exitCodeOnFailure]
  /\ pc' = [pc EXCEPT ![i] = "failed"]
  /\ UNCHANGED <<schema, unique, concurrent, stationId, seed, fault, db, ent, desc, locationId,
                 evseDbId, created, err, conn, ops, calls>>

Next ==
  \E i \in Inst :
    \/ Authenticate(i)
    \/ DescribeTable(i)
    \/ SelectOne(i)
    \/ InsertReturning(i)
    \/ Backfill(i)
    \/ Close(i)
    \/ Catch(i)

Spec == Init /\ [][Next]_vars

----------------------------------------------------------------------------
(* The runs in an environment that fails: one metadata query or one insert  *)
(* goes wrong, or the process is stopped between two round trips            *)

Faults ==
  {NoFault} \cup {Fault(k, t) : k \in {"describe", "noRow", "noRowSkipped"}, t \in Tables}

\* the process of instance i is stopped after the operations it has issued so far
Kill(i) ==
  /\ pc[i] \in {"describe", "select", "insert", "backfill", "close"}
  /\ fault = NoFault
  /\ pc' = [pc EXCEPT ![i] = "killed"]
  /\ UNCHANGED <<schema, unique, concurrent, stationId, seed, fault, db, ent, desc, locationId,
                 evseDbId, created, err, exitCode, conn, ops, calls>>

\* the full schema, and the full schema without the Tenants table
FaultSchemas == {FullSchema, [FullSchema EXCEPT !["Tenants"] = {}]}

InitFaulty ==
  /\ concurrent = FALSE
  /\ schema \in FaultSchemas
  /\ unique \in BOOLEAN
  /\ stationId = DefaultStationId
  /\ seed \in Seeds
  /\ fault \in Faults
  /\ db = SeedDb(seed, schema)
  /\ InitLocals
  /\ calls = <<>>

NextFaulty == Next \/ \E i \in Inst : Kill(i)

SpecFaulty == InitFaulty /\ [][NextFaulty]_vars

----------------------------------------------------------------------------
(* The geometry backfill on its own: setPostgisPointIfNull called with any  *)
(* identifier and any coordinates on a Locations table of a few rows        *)

GeoIds == {Num(k) : k \in 1..(MaxGeoRows + 1)}
GeoCoords == {<<demoLng, demoLat>>, <<10, 20>>, <<30, 40>>}
GeoPoints == {NULL} \cup {MakePoint(c[1], c[2]) : c \in GeoCoords}

GeoRow(k, point) ==
  [c \in Full("Locations") |->
     IF c = "id" THEN Num(k) ELSE IF c = "coordinates" THEN point ELSE NULL]

GeoInit ==
  /\ concurrent = FALSE
  /\ schema = FullSchema
  /\ unique = TRUE
  /\ stationId = DefaultStationId
  /\ seed = "geo"
  /\ fault = NoFault
  /\ \E n \in 0..MaxGeoRows : \E points \in [1..n -> GeoPoints] :
       db = [t \in Tables |->
               IF t = "Locations" THEN [k \in 1..n |-> GeoRow(k, points[k])] ELSE <<>>]
  /\ InitLocals
  /\ calls = <<>>

GeoCall(idValue, lng, lat) ==
  /\ Len(calls) < MaxGeoCalls
  /\ LET res == setPostgisPointIfNull(db, "Locations", "id", idValue, "coordinates", lng, lat)
     IN /\ db' = res.db
        /\ calls' = Append(calls, [id |-> idValue, point |-> MakePoint(lng, lat),
                                   before |-> db["Locations"], after |-> res.db["Locations"],
                                   affected |-> res.affected, ret |-> res.ret])
  /\ UNCHANGED <<schema, unique, concurrent, stationId, seed, fault, pc, ent, desc, locationId,
                 evseDbId, created, err, exitCode, conn, ops>>

GeoNext == \E idValue \in GeoIds : \E c \in GeoCoords : GeoCall(idValue, c[1], c[2])

SpecGeo == GeoInit /\ [][GeoNext]_vars

----------------------------------------------------------------------------
(* Projection, predicate and insert on their own: one table with any of a   *)
(* pool of columns, the candidate of its entity projected and inserted      *)

\* the columns that decide a table's predicate, its returning list and its links, and a
\* column the seeder does not know
Pool(t) ==
  CASE t = "Tenants" -> {"id", "name", "createdAt", "updatedAt", "legacy"}
    [] t = "TenantPartners" -> {"id", "partyId", "countryCode", "tenantId", "legacy"}
    [] t = "Locations" -> {"id", "name", "tenantId", "coordinates", "address", "legacy"}
    [] t = "ChargingStations" -> {"id", "locationId", "tenantId", "coordinates", "legacy"}
    [] t = "Evses" ->
         {"id", "databaseId", "stationId", "evseTypeId", "evseId", "removed", "legacy"}
    [] t = "Connectors" -> {"id", "stationId", "connectorId", "evseId", "status", "legacy"}

\* any non-empty choice from the pool, with or without all the other columns
PickSchemas(t) ==
  {S \cup R : S \in SUBSET Pool(t), R \in {{}, Full(t) \ Pool(t)}} \ {{}}

PickInit ==
  /\ concurrent = FALSE
  /\ unique = FALSE
  /\ stationId \in StationIds
  /\ seed = "empty"
  /\ fault = NoFault
  /\ \E e \in DOMAIN Order :
       /\ ent = [i \in Inst |-> e]
       /\ \E cols \in PickSchemas(Order[e]) :
            schema = [t \in Tables |-> IF t = Order[e] THEN cols ELSE Full(t)]
  /\ db = SeedDb(seed, schema)
  /\ pc = [i \in Inst |-> "insert"]
  /\ desc = [i \in Inst |-> NullDesc]
  /\ locationId \in [Inst -> {NULL, Num(1)}]
  /\ evseDbId = locationId
  /\ created = [i \in Inst |-> [t \in Tables |-> "none"]]
  /\ err = [i \in Inst |-> NoError]
  /\ exitCode = [i \in Inst |-> 0]
  /\ conn = [i \in Inst |-> [opened |-> 0, closed |-> 0]]
  /\ ops = [i \in Inst |-> <<>>]
  /\ calls = <<>>

\* the candidate of instance i's entity is projected on the table's description, its
\* predicate is built, and the projected record is handed to insertReturning
PickAndInsert(i) ==
  /\ Len(calls) < MaxPickCalls
  /\ LET t == Order[ent[i]]
         d == describeTableSafe(t)
         row == pickExistingColumns(Candidate(t, i), d)
         res == insertReturning(db, t, row, returningCols(t, d))
     IN /\ db' = res.db
        /\ calls' = Append(calls, [table |-> t, candidate |-> Candidate(t, i), cols |-> d.cols,
                                   row |-> row, where |-> uniqueWhereSql(t, d),
                                   params |-> uniqueParams(t, d), err |-> res.err,
                                   issued |-> res.issued, before |-> db[t], after |-> res.db[t]])
  /\ UNCHANGED <<schema, unique, concurrent, stationId, seed, fault, pc, ent, desc, locationId,
                 evseDbId, created, err, exitCode, conn, ops>>

PickNext == \E i \in Inst : PickAndInsert(i)

SpecPick == PickInit /\ [][PickNext]_vars

----------------------------------------------------------------------------
(* Vocabulary of the properties *)

\* the rows of table t that satisfy the entity's uniqueness predicate (none when the
\* entity has no predicate)
DemoRows(dbv, t) ==
  LET d == TableDescription(t)
      where == uniqueWhereSql(t, d)
  IN IF d.ok /\ Len(where) > 0 /\ WhereCols(where) \subseteq schema[t]
       THEN rowsMatching(dbv, t, where, uniqueParams(t, d))
       ELSE {}

\* the database before the first run holds no row any entity's predicate selects
FreshStart == \A t \in Tables : DemoRows(SeedDb(seed, schema), t) = {}

\* the entity of table t is skipped: its table is missing or its predicate is empty
SkipsEntity(t) == schema[t] = {} \/ Len(uniqueWhereSql(t, TableDescription(t))) = 0

OpsOf(i, kind, t) ==
  {k \in DOMAIN ops[i] : ops[i][k].kind = kind /\ ops[i][k].table = t}

\* the rows instance i inserted into table t
InsertedRows(i, t) == {db[t][ops[i][k].n] : k \in {j \in OpsOf(i, "insert", t) : ops[i][j].n > 0}}

Failing(i) == pc[i] \in {"thrown", "failed"}

----------------------------------------------------------------------------
\* C1: starting from a database without the demo rows, once a first sequential run has
\* completed, every later run completes too, changes no row of any table (the rows are
\* those of one run, no duplicates), and ensureRow returns created = false in it for
\* exactly the entities for which it returned created = true in the first run.
Idempotence ==
  /\ [][(~concurrent /\ FreshStart /\ pc[1] = "done") => db' = db]_vars
  /\ [](~concurrent /\ FreshStart /\ pc[1] = "done" =>
          /\ \A t \in Tables : created[1][t] \in {"none", "created"}
          /\ \A t \in Tables : created[1][t] = "created" => Cardinality(DemoRows(db, t)) = 1
          /\ \A i \in Inst \ {1} :
               /\ ~Failing(i)
               /\ pc[i] = "done" =>
                    \A t \in Tables :
                      created[i][t] = IF created[1][t] = "created" THEN "existing" ELSE "none")

IdempotenceWitness ==
  /\ ~concurrent /\ FreshStart /\ seed = "other" /\ schema = FullSchema
  /\ pc[1] = "done" /\ pc[2] = "done"
  /\ \A t \in Tables : created[1][t] = "created" /\ created[2][t] = "existing"
  /\ \A t \in Tables : Len(db[t]) = 2

----------------------------------------------------------------------------
GeoIndex(tbl, idValue) == {k \in DOMAIN tbl : tbl[k]["id"] = idValue}

\* C2: a call of setPostgisPointIfNull on a row whose point is null affects exactly that
\* row, sets the point from the coordinates and returns true; a second call with the same
\* coordinates affects no row and returns false; on a row whose point is non-null, and on
\* an identifier no row has, every call affects no row and leaves the table unchanged.
GeometryWriteOnce ==
  /\ \A j \in DOMAIN calls :
       LET c == calls[j]
           hit == GeoIndex(c.before, c.id)
       IN IF \E k \in hit : c.before[k]["coordinates"] = NULL
            THEN /\ c.affected = 1 /\ c.ret
                 /\ \A k \in DOMAIN c.before :
                      c.after[k] = IF k \in hit
                                     THEN [c.before[k] EXCEPT !["coordinates"] = c.point]
                                     ELSE c.before[k]
            ELSE c.affected = 0 /\ ~c.ret /\ c.after = c.before
  /\ \A j \in DOMAIN calls : j > 1 /\ calls[j].id = calls[j - 1].id
                               /\ calls[j].point = calls[j - 1].point
       => calls[j].affected = 0 /\ ~calls[j].ret /\ calls[j].after = calls[j - 1].after

GeometryWriteOnceWitness ==
  /\ Len(calls) = 2
  /\ calls[1].id = calls[2].id /\ calls[1].point = calls[2].point
  /\ calls[1].affected = 1 /\ calls[1].ret
  /\ calls[2].affected = 0 /\ ~calls[2].ret
  /\ \E k \in DOMAIN db["Locations"] :
       k \notin GeoIndex(db["Locations"], calls[1].id)
         /\ db["Locations"][k]["coordinates"] \notin {NULL, calls[1].point}

----------------------------------------------------------------------------
\* C3: when the Tenants table is absent, a run issues nothing after the introspection of
\* Tenants, writes no row, is rejected with an error naming Tenants, and ends with exit
\* status 1.
MandatoryTableFailure ==
  schema["Tenants"] = {} =>
    /\ db = SeedDb(seed, schema)
    /\ \A i \in Inst :
         /\ pc[i] \in {"idle", "describe", "thrown", "failed"}
         /\ \A k \in DOMAIN ops[i] :
              ops[i][k] = IF k = 1 THEN Op("authenticate", "", {}, 0)
                          ELSE Op("describe", "Tenants", {}, 0)
         /\ Len(ops[i]) <= 2
         /\ Failing(i) => err[i] = Error("TableNotFound", "Tenants")
         /\ pc[i] = "failed" => exitCode[i] = 1
         /\ pc[i] # "failed" => exitCode[i] = 0

MandatoryTableFailureWitness ==
  /\ schema["Tenants"] = {} /\ seed = "other"
  /\ pc[1] = "failed" /\ exitCode[1] = 1 /\ err[1].table = "Tenants"
  /\ Len(ops[1]) = 2 /\ Len(db["Locations"]) = 1

----------------------------------------------------------------------------
OthersComplete(t) == \A u \in Tables \ {t} : schema[u] = Full(u)

SkipRaisesNothing(i, t) ==
  /\ err[i].table # t
  /\ created[i][t] = "none"
  /\ OpsOf(i, "select", t) \cup OpsOf(i, "insert", t) \cup OpsOf(i, "update", t) = {}
  /\ OthersComplete(t) => ~Failing(i)

\* C4: in a run that skips the Location entity, the Station row the run inserts has a null
\* (or no) locationId, the skip raises no error, and with every other table complete the
\* run does not fail; likewise a run that skips the Evse entity inserts its Connector row
\* with a null (or no) evseId.
FkPropagationOnSkip ==
  \A i \in Inst :
    /\ SkipsEntity("Locations") =>
         /\ \A r \in InsertedRows(i, "ChargingStations") : Get(r, "locationId") = NULL
         /\ SkipRaisesNothing(i, "Locations")
         /\ locationId[i] = NULL
    /\ SkipsEntity("Evses") =>
         /\ \A r \in InsertedRows(i, "Connectors") : Get(r, "evseId") = NULL
         /\ SkipRaisesNothing(i, "Evses")
         /\ evseDbId[i] = NULL

FkPropagationOnSkipWitness ==
  /\ schema["Locations"] = {} /\ seed = "other"
  /\ pc[1] = "done" /\ exitCode[1] = 0
  /\ \E r \in InsertedRows(1, "ChargingStations") :
       "locationId" \in DOMAIN r /\ r["locationId"] = NULL /\ r["id"] = Str(stationId)

----------------------------------------------------------------------------
\* C5: after one run on an empty database with the full schema, each of the six tables
\* holds exactly one row, the Station row's locationId is the id of the Location row, the
\* Evse and the Connector row carry the station id, the Connector's evseId is the Evse's
\* id, and the Location's coordinates are the demo point.
FreshDatabaseScenario ==
  (~concurrent /\ schema = FullSchema /\ seed = "empty" /\ pc[1] = "done") =>
    /\ \A t \in Tables : Len(db[t]) = 1
    /\ \A t \in Tables : created[1][t] = "created"
    /\ db["Tenants"][1]["id"] = Num(DEFAULT_TENANT_ID)
    /\ db["TenantPartners"][1]["partyId"] = Str("TST")
    /\ db["TenantPartners"][1]["countryCode"] = Str("US")
    /\ db["Locations"][1]["name"] = Str("Demo Location")
    /\ db["Locations"][1]["coordinates"] = <<demoLng, demoLat, SRID>>
    /\ db["ChargingStations"][1]["id"] = Str(stationId)
    /\ db["ChargingStations"][1]["locationId"] = db["Locations"][1]["id"]
    /\ db["ChargingStations"][1]["locationId"] # NULL
    /\ db["Evses"][1]["stationId"] = Str(stationId)
    /\ db["Evses"][1]["evseTypeId"] = Num(1)
    /\ db["Connectors"][1]["stationId"] = Str(stationId)
    /\ db["Connectors"][1]["connectorId"] = Num(1)
    /\ db["Connectors"][1]["status"] = Str("Available")
    /\ db["Connectors"][1]["evseId"] = db["Evses"][1]["id"]
    /\ exitCode[1] = 0

FreshDatabaseScenarioWitness ==
  /\ ~concurrent /\ schema = FullSchema /\ seed = "empty" /\ stationId = DefaultStationId
  /\ pc[1] = "done" /\ pc[2] = "idle"
  /\ \A t \in Tables : Len(db[t]) = 1

----------------------------------------------------------------------------
\* C6 as claimed: no insert and no uniqueness predicate ever names a column that is
\* missing from the table's schema.
SchemaSubsetting ==
  \A i \in Inst : \A k \in DOMAIN ops[i] :
    ops[i][k].kind \in {"select", "insert"} =>
      (ops[i][k].cols \ {"1=1"}) \subseteq schema[ops[i][k].table]

\* the key columns main() names in a predicate without looking at the schema
UnguardedCols(t) ==
  CASE t = "Tenants" -> {"id"}
    [] t = "TenantPartners" -> {"partyId", "countryCode"}
    [] t = "ChargingStations" -> {"id"}
    [] t = "Connectors" -> {"stationId", "connectorId"}
    [] OTHER -> {}

\* C6 as amended: every insert names exactly the candidate's columns the schema has; a
\* predicate names a missing column only if it is an unguarded key column (Tenants.id,
\* TenantPartners.partyId/countryCode, ChargingStations.id, Connectors.stationId/
\* connectorId), and then the read fails the run before any insert into that table; the
\* literal 1=1 stands in exactly for a missing TenantPartners.tenantId, the clauses of
\* the other missing guarded columns are dropped.
GuardedSchemaSubsetting ==
  \A i \in Inst : \A k \in DOMAIN ops[i] :
    LET op == ops[i][k]
        t == op.table
    IN /\ op.kind = "insert" =>
            /\ op.cols \subseteq schema[t]
            /\ op.cols = (DOMAIN Candidate(t, i)) \cap schema[t]
       /\ op.kind = "select" =>
            /\ ((op.cols \ {"1=1"}) \ schema[t]) \subseteq UnguardedCols(t)
            /\ UnguardedCols(t) \subseteq op.cols
            /\ "1=1" \in op.cols <=> (t = "TenantPartners" /\ "tenantId" \notin schema[t])
            /\ ~((op.cols \ {"1=1"}) \subseteq schema[t]) =>
                 /\ k = Len(ops[i])
                 /\ Failing(i) /\ err[i] = Error("SqlError", t)
                 /\ OpsOf(i, "insert", t) = {}

GuardedSchemaSubsettingWitness ==
  /\ "tenantId" \notin schema["Locations"] /\ "name" \in schema["Locations"]
  /\ pc[1] = "done"
  /\ \E k \in OpsOf(1, "select", "Locations") : ops[1][k].cols = {"name"}
  /\ \E k \in OpsOf(1, "insert", "Locations") :
       "tenantId" \notin ops[1][k].cols /\ "name" \in ops[1][k].cols

----------------------------------------------------------------------------
\* C7: ensureRow's read changes no table; if it finds rows matching the uniqueness
\* predicate, one of them is returned with created = false and no insert follows; if it
\* finds none, the insert follows, and the insert adds exactly one row, the projected
\* candidate, to the named table only and returns it with created = true (an insert
\* fails, adding nothing, only when an overlapping instance got there first).
EnsureRowContract ==
  [][\A i \in Inst :
       LET t == Order[ent[i]]
           where == uniqueWhereSql(t, desc[i])
           matching == rowsMatching(db, t, where, uniqueParams(t, desc[i]))
           row == pickExistingColumns(Candidate(t, i), desc[i])
       IN /\ (pc[i] = "select" /\ pc'[i] # "select") =>
               /\ db' = db
               /\ IF ~SqlColumnsOk(t, returningCols(t, desc[i]) \cup WhereCols(where))
                    THEN pc'[i] = "thrown"
                  ELSE IF matching = {}
                    THEN pc'[i] = "insert" /\ created'[i][t] = "none"
                  ELSE /\ pc'[i] \notin {"insert", "thrown"}
                       /\ created'[i][t] = "existing"
                       /\ ops'[i][Len(ops'[i])].n \in matching
                       /\ t = "Locations" =>
                            locationId'[i] = db[t][ops'[i][Len(ops'[i])].n]["id"]
          /\ (pc[i] = "insert" /\ pc'[i] # "insert") =>
               /\ ops[i][Len(ops[i])] = Op("select", t, WhereRefs(where), 0)
               /\ ~concurrent => matching = {}
               /\ IF pc'[i] = "thrown"
                    THEN db' = db /\ concurrent /\ unique /\ matching # {}
                    ELSE /\ db'[t] = Append(db[t], db'[t][Len(db[t]) + 1])
                         /\ \A c \in DOMAIN row : db'[t][Len(db[t]) + 1][c] = row[c]
                         /\ \A u \in Tables \ {t} : db'[u] = db[u]
                         /\ created'[i][t] = "created"
                         /\ t = "Locations" => locationId'[i] = db'[t][Len(db'[t])]["id"]
    ]_vars

EnsureRowContractWitness ==
  /\ ~concurrent /\ seed = "other" /\ stationId = EnvStationId /\ schema = FullSchema
  /\ pc[1] = "done"
  /\ created[1]["Tenants"] = "created" /\ created[1]["Locations"] = "created"
  /\ created[1]["ChargingStations"] = "existing"
  /\ Len(db["ChargingStations"]) = 1 /\ Len(db["Locations"]) = 2

----------------------------------------------------------------------------
\* C8 as claimed: every run that has ended, completed or failed, opened the connection
\* once and closed it exactly once, as its last database operation.
ConnectionReleasedAlways ==
  \A i \in Inst :
    Terminated(i) =>
      /\ conn[i] = [opened |-> 1, closed |-> 1]
      /\ ops[i][Len(ops[i])].kind = "close"

\* C8 as amended: a run opens the connection once; a run that completes closes it exactly
\* once, as its last database operation; a run that fails with a fatal error never closes
\* it.
ConnectionReleasedOnSuccess ==
  \A i \in Inst :
    /\ conn[i].opened = IF pc[i] = "idle" THEN 0 ELSE 1
    /\ OpsOf(i, "authenticate", "") = IF pc[i] = "idle" THEN {} ELSE {1}
    /\ conn[i].closed = IF pc[i] = "done" THEN 1 ELSE 0
    /\ OpsOf(i, "close", "") = IF pc[i] = "done" THEN {Len(ops[i])} ELSE {}
    /\ pc[i] = "done" => exitCode[i] = 0 /\ err[i] = NoError
    /\ pc[i] = "failed" => exitCode[i] = 1 /\ err[i] # NoError

ConnectionReleasedOnSuccessWitness ==
  \E i, j \in Inst :
    /\ pc[i] = "done" /\ conn[i] = [opened |-> 1, closed |-> 1]
    /\ pc[j] = "failed" /\ conn[j] = [opened |-> 1, closed |-> 0]
    /\ Len(ops[j]) > 2

----------------------------------------------------------------------------
MissedAndInserted(i, t) ==
  /\ \E k \in OpsOf(i, "select", t) : ops[i][k].n = 0
  /\ \E k \in OpsOf(i, "insert", t) : ops[i][k].n > 0

InsertFailed(i, t) ==
  /\ Failing(i) /\ Len(ops[i]) > 0
  /\ ops[i][Len(ops[i])].kind = "insert" /\ ops[i][Len(ops[i])].table = t

\* C9: a table comes to hold two rows for the same logical key (more than one, and more
\* than it held before the runs) only after two overlapping instances both read "not
\* found" and both inserted, on a database without unique constraints; an insert fails
\* only when, under a unique constraint, an overlapping instance inserted the key between
\* this instance's read and its insert; instances that run one at a time neither duplicate
\* a row nor fail an insert.
AcceptedRace ==
  /\ \A t \in Tables :
       LET held == Cardinality(DemoRows(db, t))
       IN (held > 1 /\ held > Cardinality(DemoRows(SeedDb(seed, schema), t))) =>
            /\ concurrent /\ ~unique
            /\ \E i, j \in Inst : i # j /\ MissedAndInserted(i, t) /\ MissedAndInserted(j, t)
  /\ \A t \in Tables : \A i \in Inst :
       InsertFailed(i, t) =>
         /\ concurrent /\ unique
         /\ err[i] = Error("SqlError", t)
         /\ \E k \in OpsOf(i, "select", t) : ops[i][k].n = 0
         /\ \E j \in Inst \ {i} : MissedAndInserted(j, t)
         /\ Cardinality(DemoRows(db, t)) = 1
  /\ \A t \in Tables :
       LET held == Cardinality(DemoRows(db, t))
       IN held > 0 =>
            held <= Cardinality(DemoRows(SeedDb(seed, schema), t))
                      + Cardinality({i \in Inst : MissedAndInserted(i, t)})

AcceptedRaceWitness ==
  /\ concurrent /\ ~unique
  /\ pc[1] = "done" /\ pc[2] = "done"
  /\ Cardinality(DemoRows(db, "Locations")) = 2
  /\ MissedAndInserted(1, "Locations") /\ MissedAndInserted(2, "Locations")

\* the other outcome of the race: under a unique constraint one instance's insert fails
AcceptedRaceInsertFailure ==
  /\ concurrent /\ unique
  /\ \E i, j \in Inst : pc[i] = "failed" /\ InsertFailed(i, "Tenants") /\ pc[j] = "done"

----------------------------------------------------------------------------
Edges ==
  {<<"Locations", "ChargingStations", "locationId">>,
   <<"ChargingStations", "Evses", "stationId">>,
   <<"ChargingStations", "Connectors", "stationId">>,
   <<"Evses", "Connectors", "evseId">>}

\* C10 as claimed: on every edge of the dependency graph, when the parent table is absent
\* the dependent row inserted in the run has the foreign-key field null or omitted.
ParentAbsentFk ==
  \A i \in Inst : \A e \in Edges :
    schema[e[1]] = {} => \A r \in InsertedRows(i, e[2]) : Get(r, e[3]) = NULL

\* the row of the parent table ensureRow returned to instance i, as indices
ReturnedRows(i, t) ==
  {ops[i][k].n : k \in {j \in OpsOf(i, "select", t) \cup OpsOf(i, "insert", t) : ops[i][j].n > 0}}

ThreadedEdges ==
  {<<"Locations", "ChargingStations", "locationId", "id">>,
   <<"Evses", "Connectors", "evseId", "id">>,
   <<"Evses", "Connectors", "evseId", "databaseId">>}

\* C10 as amended: on the edges Location -> Station (locationId) and Evse -> Connector
\* (evseId), a dependent row is inserted only after the parent's table was introspected;
\* its field is null or omitted when the parent table is absent and otherwise is the
\* identifier ensureRow returned for the parent; on the edges Station -> Evse and
\* Station -> Connector (stationId) the dependent row carries the configured station id
\* whether or not the ChargingStations table exists.
ParentIdThreading ==
  \A i \in Inst :
    /\ \A e \in ThreadedEdges :
         \A k \in OpsOf(i, "insert", e[2]) :
           /\ \E j \in OpsOf(i, "describe", e[1]) : j < k
           /\ \A j \in OpsOf(i, "select", e[1]) \cup OpsOf(i, "insert", e[1]) : j < k
           /\ ops[i][k].n > 0 =>
                LET r == db[e[2]][ops[i][k].n]
                IN /\ schema[e[1]] = {} => Get(r, e[3]) = NULL
                   /\ (e[3] \in DOMAIN r /\ e[4] \in returningCols(e[1], TableDescription(e[1]))
                         /\ ReturnedRows(i, e[1]) # {}) =>
                        \E n \in ReturnedRows(i, e[1]) : r[e[3]] = db[e[1]][n][e[4]]
    /\ \A t \in {"Evses", "Connectors"} :
         \A r \in InsertedRows(i, t) : "stationId" \in DOMAIN r => r["stationId"] = Str(stationId)

ParentIdThreadingWitness ==
  /\ schema["ChargingStations"] = {} /\ seed = "empty"
  /\ pc[1] = "done"
  /\ \E r \in InsertedRows(1, "Evses") : r["stationId"] = Str(stationId)
  /\ \E r \in InsertedRows(1, "Connectors") :
       r["stationId"] = Str(stationId) /\ r["evseId"] = db["Evses"][1]["id"]

----------------------------------------------------------------------------
\* the place of an operation in the program: the entity's place in the graph, then the
\* kind of round trip within the entity
EntityPlace(t) ==
  CASE t = "" -> 0
    [] t = "Tenants" -> 1
    [] t = "TenantPartners" -> 2
    [] t = "Locations" -> 3
    [] t = "ChargingStations" -> 4
    [] t = "Evses" -> 5
    [] t = "Connectors" -> 6

KindPlace(k) ==
  CASE k = "authenticate" -> 0
    [] k = "describe" -> 1
    [] k = "select" -> 2
    [] k = "insert" -> 3
    [] k = "update" -> 4
    [] k = "close" -> 70

OpPlace(op) == 10 * EntityPlace(op.table) + KindPlace(op.kind)

Parents(t) ==
  CASE t = "Tenants" -> {}
    [] t = "TenantPartners" -> {"Tenants"}
    [] t = "Locations" -> {"Tenants"}
    [] t = "ChargingStations" -> {"Tenants", "Locations"}
    [] t = "Evses" -> {"Tenants", "ChargingStations"}
    [] t = "Connectors" -> {"Tenants", "Evses"}

\* in the operations of instance i before the k-th, the ensure of table p has returned a
\* row, or p was introspected and skipped
EnsuredOrSkipped(i, p, k) ==
  /\ \E j \in 1..(k - 1) : ops[i][j].kind = "describe" /\ ops[i][j].table = p
  /\ \A j \in k..Len(ops[i]) :
       ops[i][j].table = p => ops[i][j].kind \notin {"select", "insert", "update"}
  /\ (\E j \in 1..(k - 1) : ops[i][j].kind = "select" /\ ops[i][j].table = p) =>
       \E j \in 1..(k - 1) : /\ ops[i][j].kind \in {"select", "insert"}
                              /\ ops[i][j].table = p /\ ops[i][j].n > 0

\* C11: the operations a run has issued are in program order: the connection first, then
\* the entities in the order Tenant, Partner, Location, Station, Evse, Connector, within an
\* entity the introspection, the read, the insert, the backfill, each at most once and one
\* after the other; an insert is issued only after the ensure of each parent of its entity
\* has returned a row or the parent has been skipped.
ProgramOrder ==
  \A i \in Inst :
    /\ \A k \in DOMAIN ops[i] : k > 1 => OpPlace(ops[i][k - 1]) < OpPlace(ops[i][k])
    /\ \A k \in DOMAIN ops[i] :
         ops[i][k].kind = "insert" => \A p \in Parents(ops[i][k].table) : EnsuredOrSkipped(i, p, k)
    /\ \A k \in DOMAIN ops[i] :
         /\ ops[i][k].kind = "select" => ops[i][k - 1] = Op("describe", ops[i][k].table, {}, 0)
         /\ ops[i][k].kind = "insert" =>
              ops[i][k - 1].kind = "select" /\ ops[i][k - 1].table = ops[i][k].table
         /\ ops[i][k].kind = "update" =>
              ops[i][k - 1].kind \in {"select", "insert"} /\ ops[i][k - 1].table = ops[i][k].table

ProgramOrderWitness ==
  /\ schema = FullSchema /\ seed = "empty" /\ pc[1] = "done"
  /\ \A t \in Tables : OpsOf(1, "insert", t) # {}
  /\ OpsOf(1, "update", "Locations") # {} /\ OpsOf(1, "update", "ChargingStations") # {}
  /\ \E t \in Tables : OpsOf(2, "select", t) # {} /\ OpsOf(2, "insert", t) = {}

----------------------------------------------------------------------------
\* C12: the record pickExistingColumns returns has exactly the candidate's keys that are
\* columns of the schema, each with the candidate's value (a null stays a null, nothing is
\* filled in); an empty projected record handed to insertReturning raises "no columns"
\* without a statement being issued or a row written, and every insert that is issued
\* names at least one column.
ProjectedRecord ==
  \A j \in DOMAIN calls :
    LET c == calls[j]
    IN /\ DOMAIN c.row \subseteq c.cols
       /\ DOMAIN c.row = (DOMAIN c.candidate) \cap c.cols
       /\ \A k \in DOMAIN c.row : c.row[k] = c.candidate[k]
       /\ DOMAIN c.row = {} =>
            c.err = Error("NoColumns", c.table) /\ ~c.issued /\ c.after = c.before
       /\ c.issued => DOMAIN c.row # {}
       /\ c.err = NoError =>
            /\ Len(c.after) = Len(c.before) + 1
            /\ \A k \in DOMAIN c.row : c.after[Len(c.after)][k] = c.row[k]

ProjectedRecordWitness ==
  /\ \E j \in DOMAIN calls :
       /\ calls[j].table = "ChargingStations" /\ calls[j].cols = {"legacy"}
       /\ calls[j].row = <<>> /\ calls[j].err.kind = "NoColumns" /\ db["ChargingStations"] = <<>>

ProjectedRecordKept ==
  \E j \in DOMAIN calls :
    /\ calls[j].table = "ChargingStations"
    /\ DOMAIN calls[j].row = {"id", "locationId"}
    /\ calls[j].row["locationId"] = NULL /\ calls[j].err = NoError
    /\ db["ChargingStations"][1]["locationId"] = NULL

----------------------------------------------------------------------------
LastOp(i) == ops[i][Len(ops[i])]

\* the fatal conditions named: Tenants not described, an insert without a returned row, an
\* empty record at the insert
NamedFatal == {"TableNotFound", "NoRowReturned", "NoColumns"}

\* the rows instance i inserted are in their tables, with the values it gave them
WrittenRowsInPlace(i) ==
  \A k \in DOMAIN ops[i] :
    (ops[i][k].kind = "insert" /\ ops[i][k].n > 0) =>
      LET t == ops[i][k].table
      IN /\ ops[i][k].n <= Len(db[t])
         /\ \A c \in ops[i][k].cols : db[t][ops[i][k].n][c] = Candidate(t, i)[c]

\* C13: a run in which the Tenants table is not described, or an insert reports no row,
\* fails at that operation: the operation is the last the run issues (no read, insert or
\* update follows on that or a later entity, now or in any later step), the rows the run
\* inserted for earlier entities stay in their tables, and the run ends with exit status 1.
FatalAbort ==
  /\ [][\A i \in Inst :
          /\ Failing(i) => (ops'[i] = ops[i] /\ Failing(i)')
          /\ pc[i] = "thrown" => (pc'[i] \in {"thrown", "failed"})
          /\ pc'[i] = "failed" => exitCode'[i] = 1]_vars
  /\ [](\A i \in Inst :
          /\ (\E k \in OpsOf(i, "describe", "Tenants") : desc[i] = NullDesc /\ ent[i] = 1) =>
               /\ Failing(i) /\ err[i] = Error("TableNotFound", "Tenants")
               /\ LastOp(i) = Op("describe", "Tenants", {}, 0)
          /\ \A k \in DOMAIN ops[i] :
               (ops[i][k].kind = "insert" /\ ops[i][k].n = 0) =>
                 /\ k = Len(ops[i]) /\ Failing(i)
                 /\ err[i].table = ops[i][k].table
                 /\ err[i].kind \in {"NoRowReturned", "SqlError"}
          /\ (Failing(i) /\ err[i].kind \in NamedFatal) =>
               /\ LastOp(i).table = err[i].table
               /\ LastOp(i).kind = IF err[i].kind = "TableNotFound" THEN "describe" ELSE "insert"
               /\ WrittenRowsInPlace(i)
               /\ conn[i].closed = 0
          /\ pc[i] = "failed" <=> exitCode[i] # 0)

FatalAbortWitness ==
  /\ seed = "empty" /\ schema = FullSchema
  /\ pc[1] = "failed" /\ exitCode[1] = 1 /\ err[1] = Error("NoRowReturned", "Evses")
  /\ LastOp(1) = Op("insert", "Evses", DOMAIN evseCandidate(1), 0)
  /\ OpsOf(1, "insert", "Locations") # {} /\ OpsOf(1, "insert", "ChargingStations") # {}
  /\ OpsOf(1, "describe", "Connectors") = {}
  /\ pc[2] = "done" /\ Len(db["ChargingStations"]) = 1 /\ created[2]["Connectors"] = "created"

----------------------------------------------------------------------------
\* every entity that has a predicate has a row matching it
AllPresent(dbv) == \A t \in Tables : SkipsEntity(t) \/ DemoRows(dbv, t) # {}

\* from dbv to dbw no row is added or removed, and a row changes at most in a coordinates
\* column that was null
OnlyNullGeometryFilled(dbv, dbw) ==
  \A t \in Tables :
    /\ Len(dbw[t]) = Len(dbv[t])
    /\ \A k \in DOMAIN dbv[t] : \A c \in DOMAIN dbv[t][k] :
         dbw[t][k][c] # dbv[t][k][c] =>
           /\ c = "coordinates" /\ dbv[t][k][c] = NULL
           /\ dbw[t][k][c] = MakePoint(demoLng, demoLat)

\* C14: in runs on a database that already holds a row for every entity's predicate, no
\* insert is issued, ensureRow reports every entity as existing, and the database differs
\* from the one the runs started on at most in coordinates columns that were null; every
\* step of a run on such a database leaves all other columns, and every non-null
\* coordinates value, as they are.
NoMutationOnRerun ==
  /\ [][(~concurrent /\ AllPresent(db)) => OnlyNullGeometryFilled(db, db')]_vars
  /\ [](AllPresent(SeedDb(seed, schema)) =>
          /\ OnlyNullGeometryFilled(SeedDb(seed, schema), db)
          /\ \A i \in Inst : \A t \in Tables :
               /\ OpsOf(i, "insert", t) = {}
               /\ created[i][t] # "created"
               /\ (pc[i] = "done" /\ ~SkipsEntity(t)) => created[i][t] = "existing")

NoMutationOnRerunWitness ==
  /\ seed = "demo" /\ schema = FullSchema /\ pc[1] = "done" /\ pc[2] = "done"
  /\ SeedDb(seed, schema)["ChargingStations"][2]["coordinates"] = NULL
  /\ db["ChargingStations"][2]["coordinates"] = MakePoint(demoLng, demoLat)
  /\ db["Locations"][2]["coordinates"] = OperatorPoint
  /\ db["Tenants"][2]["name"] = Str("Renamed Tenant")
  /\ \A t \in Tables : Len(db[t]) = 2
  /\ OpsOf(1, "update", "Locations") # {} /\ OpsOf(2, "update", "ChargingStations") # {}

----------------------------------------------------------------------------
EvseCalls == {j \in DOMAIN calls : calls[j].table = "Evses"}

\* the value each clause of a predicate compares its column with
ClauseValues(c) == {<<c.where[j].col, c.params[c.where[j].param]>> : j \in DOMAIN c.where}

\* C15 as claimed: the Evse predicate is stationId plus evseTypeId = 1 whenever the schema
\* has an evseTypeId column, is stationId plus evseId only when it has none, and never
\* holds both the evseTypeId and the evseId clause.
EvsePredicateAsClaimed ==
  \A j \in EvseCalls :
    LET c == calls[j]
    IN /\ "evseTypeId" \in c.cols =>
            ClauseValues(c) = {<<"stationId", Str(stationId)>>, <<"evseTypeId", Num(1)>>}
       /\ WhereCols(c.where) = {"stationId", "evseId"} => "evseTypeId" \notin c.cols
       /\ ~({"evseTypeId", "evseId"} \subseteq WhereCols(c.where))

\* C15 as amended: the Evse predicate holds the clause evseTypeId = 1 exactly when the
\* schema has an evseTypeId column, the clause on evseId exactly when it has an evseId but
\* no evseTypeId column (never both), and the clause on stationId exactly when it has a
\* stationId column; the clauses compare with the station id, 1 and the demo EVSE id, and
\* which of them appear is decided by the columns alone, also where the candidate's
\* evseTypeId is not null.
EvsePredicateBranching ==
  \A j \in EvseCalls :
    LET c == calls[j]
    IN /\ WhereCols(c.where) =
            ({"stationId"} \cap c.cols)
              \cup (IF "evseTypeId" \in c.cols THEN {"evseTypeId"} ELSE {"evseId"} \cap c.cols)
       /\ ClauseValues(c) \subseteq {<<"stationId", Str(stationId)>>, <<"evseTypeId", Num(1)>>,
                                      <<"evseId", Str("US*TST*E*00000001*1")>>}
       /\ Len(c.where) = Cardinality(WhereCols(c.where))
       /\ c.candidate["evseTypeId"] = Num(1)

EvsePredicateBranchingWitness ==
  \E j \in EvseCalls :
    /\ "evseTypeId" \notin calls[j].cols /\ {"stationId", "evseId"} \subseteq calls[j].cols
    /\ WhereCols(calls[j].where) = {"stationId", "evseId"}
    /\ calls[j].candidate["evseTypeId"] # NULL
    /\ "evseTypeId" \notin DOMAIN calls[j].row

----------------------------------------------------------------------------
\* the metadata query of instance i on table t failed although the table exists
IntrospectionFailed(i, t) ==
  fault = Struck(Fault("describe", t), i) /\ schema[t] # {}

\* the operation instance i issued after its introspection of table t, if any, is the
\* introspection of the next entity (or the close after the last)
ContinuesAfter(i, t) ==
  \A k \in OpsOf(i, "describe", t) :
    k < Len(ops[i]) =>
      ops[i][k + 1] = IF t = "Connectors" THEN Op("close", "", {}, 0)
                      ELSE Op("describe", Order[EntityPlace(t) + 1], {}, 0)

\* C16: a failed introspection of an existing table never surfaces as an error of its
\* own: for an optional table the run issues no read, insert or update on it, hands a null
\* identifier to the dependents, goes on with the introspection of the next entity and
\* does not fail; for Tenants the run fails with the mandatory-table error, as if the
\* table were absent.
FailOpenIntrospection ==
  \A i \in Inst : \A t \in Tables :
    IntrospectionFailed(i, t) =>
      /\ OpsOf(i, "select", t) \cup OpsOf(i, "insert", t) \cup OpsOf(i, "update", t) = {}
      /\ created[i][t] = "none"
      /\ IF t = "Tenants"
           THEN /\ Failing(i) /\ err[i] = Error("TableNotFound", "Tenants")
                /\ LastOp(i) = Op("describe", "Tenants", {}, 0)
           ELSE /\ ~Failing(i) /\ err[i] = NoError /\ exitCode[i] = 0
                /\ ContinuesAfter(i, t)
                /\ t = "Locations" => locationId[i] = NULL
                /\ t = "Evses" => evseDbId[i] = NULL

FailOpenIntrospectionWitness ==
  /\ IntrospectionFailed(1, "Locations") /\ seed = "other"
  /\ pc[1] = "done" /\ pc[2] = "done"
  /\ Len(db["Locations"]) = 2 /\ created[2]["Locations"] = "created"
  /\ \E r \in InsertedRows(1, "ChargingStations") : r["locationId"] = NULL
  /\ \A t \in Tables \ {"Locations"} : created[1][t] = "created"

\* the same failure on the mandatory table
FailOpenIntrospectionTenants ==
  /\ IntrospectionFailed(1, "Tenants") /\ pc[1] = "failed" /\ exitCode[1] = 1
  /\ pc[2] = "done"

----------------------------------------------------------------------------
(* One complete, undisturbed run as a function of the database it starts on *)

RefCandidate(t, st) ==
  CASE t = "ChargingStations" -> [Candidate(t, 1) EXCEPT !["locationId"] = st.loc]
    [] t = "Connectors" -> [Candidate(t, 1) EXCEPT !["evseId"] = st.evse]
    [] OTHER -> Candidate(t, 1)

MinOf(S) == CHOOSE k \in S : \A l \in S : k <= l

\* the entity of table t ensured and backfilled on st.db
RefEntity(st, t) ==
  LET d == TableDescription(t)
      returning == returningCols(t, d)
      sel == selectOne(st.db, t, returning, uniqueWhereSql(t, d), uniqueParams(t, d))
      ins == insertReturning(st.db, t, pickExistingColumns(RefCandidate(t, st), d), returning)
      failed == sel.err # NoError \/ (sel.found = {} /\ ins.err # NoError)
      after == IF sel.found = {} THEN ins.db ELSE st.db
      row == IF sel.found = {} THEN ins.row ELSE Project(st.db[t][MinOf(sel.found)], returning)
      loc == IF t = "Locations" THEN row["id"] ELSE st.loc
      evse == IF t = "Evses" THEN KeepEvseDbId(1, t, row) ELSE st.evse
      fill == setPostgisPointIfNull(after, t, "id", IF t = "Locations" THEN loc ELSE Str(stationId),
                                    "coordinates", demoLng, demoLat)
  IN IF ~st.ok \/ (~d.ok /\ IsMandatory(t)) \/ (~Skips(t, d) /\ failed)
       THEN [st EXCEPT !.ok = FALSE]
     ELSE IF Skips(t, d) THEN st
     ELSE [ok |-> ~HasBackfill(t, d) \/ fill.err = NoError,
           db |-> IF HasBackfill(t, d) THEN fill.db ELSE after,
           loc |-> loc, evse |-> evse]

RECURSIVE RefRun(_, _)
RefRun(st, e) == IF e > Len(Order) THEN st ELSE RefRun(RefEntity(st, Order[e]), e + 1)

SingleRun(dbv) == RefRun([ok |-> TRUE, db |-> dbv, loc |-> NULL, evse |-> NULL], 1)

\* rows compared without the times they were written at
Timeless(r) ==
  [c \in DOMAIN r |-> IF c \in {"createdAt", "updatedAt", "timestamp"} THEN NULL ELSE r[c]]

SameRows(dbv, dbw) ==
  \A t \in Tables :
    /\ Len(dbv[t]) = Len(dbw[t])
    /\ \A k \in DOMAIN dbv[t] : Timeless(dbv[t][k]) = Timeless(dbw[t][k])

Aborted(i) == pc[i] \in {"failed", "killed"}

\* C17: once a run has completed, the tables hold the rows (times of writing aside) that
\* one complete undisturbed run on the original database leaves, also when earlier runs
\* were stopped after any number of their operations or failed on an insert that reported
\* no row: no row of the aborted run is duplicated and none of its gaps remains.
RecoveryAfterAbort ==
  (/\ fault.kind # "describe"
   /\ \E i \in Inst : pc[i] = "done") =>
    /\ SingleRun(SeedDb(seed, schema)).ok
    /\ SameRows(db, SingleRun(SeedDb(seed, schema)).db)

\* a run stopped between the insert of the Location and its geometry backfill
RecoveryAfterAbortWitness ==
  /\ seed = "other" /\ schema = FullSchema
  /\ pc[1] = "killed" /\ LastOp(1).kind = "insert" /\ LastOp(1).table = "Locations"
  /\ pc[2] = "done" /\ created[2]["Locations"] = "existing"
  /\ Len(db["Locations"]) = 2 /\ db["Locations"][2]["coordinates"] = MakePoint(demoLng, demoLat)
  /\ db["ChargingStations"][2]["locationId"] = db["Locations"][2]["id"]

\* a run that failed on the insert of a later entity, the row being stored all the same
RecoveryAfterFailedInsert ==
  /\ fault = Struck(Fault("noRow", "Evses"), 1) /\ pc[1] = "failed"
  /\ pc[2] = "done" /\ created[2]["Evses"] = "existing" /\ Len(db["Evses"]) = 1

----------------------------------------------------------------------------
\* the links of a dependent row to its parents
LinkCols(t) ==
  CASE t = "ChargingStations" -> {"locationId"}
    [] t = "Connectors" -> {"evseId"}
    [] OTHER -> {}

\* the row of table t the read of instance i found was in the database before the runs
FoundSeedRow(i, t, n) ==
  /\ \E k \in OpsOf(i, "select", t) : ops[i][k].n = n
  /\ n \in DOMAIN SeedDb(seed, schema)[t]

\* C18: no step changes the locationId of a ChargingStations row or the evseId of a
\* Connectors row that is already in its table; a Station or Connector row that existed
\* before the runs and that a run's ensure finds still has the link it had, null
\* included, after the run has ensured (found or created) the Location or the Evse and
\* holds its identifier.
NeverRelinked ==
  /\ [][\A t \in {"ChargingStations", "Connectors"} : \A k \in DOMAIN db[t] :
          \A c \in LinkCols(t) \cap DOMAIN db[t][k] : db'[t][k][c] = db[t][k][c]]_vars
  /\ [](\A i \in Inst : \A t \in {"ChargingStations", "Connectors"} :
          \A n \in DOMAIN db[t] : \A c \in LinkCols(t) \cap schema[t] :
            FoundSeedRow(i, t, n) =>
              /\ created[i][t] = "existing"
              /\ db[t][n][c] = SeedDb(seed, schema)[t][n][c]
              /\ OpsOf(i, "insert", t) = {})

NeverRelinkedWitness ==
  /\ seed = "unlinked" /\ schema = FullSchema /\ pc[1] = "done"
  /\ created[1]["Locations"] = "created" /\ created[1]["ChargingStations"] = "existing"
  /\ created[1]["Evses"] = "created" /\ created[1]["Connectors"] = "existing"
  /\ locationId[1] = db["Locations"][2]["id"] /\ locationId[1] # NULL
  /\ db["ChargingStations"][2]["id"] = Str(stationId)
  /\ db["ChargingStations"][2]["locationId"] = NULL
  /\ evseDbId[1] # NULL /\ db["Connectors"][2]["evseId"] = NULL

----------------------------------------------------------------------------
\* the columns the predicate of an entity may be built from, where main() builds it
PredicateCols(t) ==
  CASE t = "Locations" -> {"name", "tenantId"}
    [] t = "Evses" -> {"stationId", "evseTypeId", "evseId"}

\* table t exists and has none of the columns its predicate could use
EmptyPredicate(t) == schema[t] # {} /\ schema[t] \cap PredicateCols(t) = {}

\* C19: when the Locations table exists without a name and a tenantId column, or the Evses
\* table without a stationId, an evseTypeId and an evseId column, a run introspects the
\* table and issues no read, insert or update on it, the table keeps its rows, the
\* identifier handed to the dependents is null, the next operation is the introspection of
\* the next entity, and no error is raised for the table (with the other tables complete
\* the run does not fail).
SkipOnEmptyPredicate ==
  \A i \in Inst : \A t \in {"Locations", "Evses"} :
    EmptyPredicate(t) =>
      /\ OpsOf(i, "select", t) \cup OpsOf(i, "insert", t) \cup OpsOf(i, "update", t) = {}
      /\ db[t] = SeedDb(seed, schema)[t]
      /\ created[i][t] = "none"
      /\ IF t = "Locations" THEN locationId[i] = NULL ELSE evseDbId[i] = NULL
      /\ ContinuesAfter(i, t)
      /\ err[i].table # t
      /\ OthersComplete(t) => (~Failing(i) /\ exitCode[i] = 0)
      /\ pc[i] = "done" => OpsOf(i, "describe", t) # {}

SkipOnEmptyPredicateWitness ==
  /\ EmptyPredicate("Evses") /\ seed = "other" /\ pc[1] = "done"
  /\ Len(db["Evses"]) = 1 /\ OpsOf(1, "describe", "Evses") # {}
  /\ \E r \in InsertedRows(1, "Connectors") : r["evseId"] = NULL /\ r["stationId"] = Str(stationId)

\* the same on the Locations table
SkipOnEmptyPredicateLocations ==
  /\ EmptyPredicate("Locations") /\ seed = "other" /\ pc[1] = "done"
  /\ Len(db["Locations"]) = 1
  /\ \E r \in InsertedRows(1, "ChargingStations") : r["locationId"] = NULL

====
